---- MODULE Spec2Model ----
(***************************************************************************)
(* AquaVigil dashboard client: the three polling views (MapPage,           *)
(* ModuleDataPage, StatisticsPage), the HistoryPage and the view-history   *)
(* record kept in localStorage under 'aquavigil-history'.                  *)
(*                                                                         *)
(* One browser tab is modelled.  The router shows one page at a time; a    *)
(* page that is left is unmounted (its effect cleanup runs), but the       *)
(* fetches it issued stay in flight and their continuations still run.     *)
(***************************************************************************)
EXTENDS Integers, Sequences, FiniteSets, TLC

(* ----------------------------- bounds ---------------------------------- *)
NumIds == 2
NumVals == 2
MaxTicks == 1
MaxFetches == 2

(* ------------------------ program constants ---------------------------- *)
HISTORY_LIMIT == 20
MsPerSec == 1000

ModuleIds == 1..NumIds
Vals == 1..NumVals

NoError == "null"
MapErrorMsg == "Failed to load sensor data. Please refresh the page."
ModuleErrorMsg == "Failed to load module data. Please try again."
StatsErrorMsg == "Failed to load statistics. Please refresh the page."

Min(a, b) == IF a < b THEN a ELSE b

(* ------------------------------ time ----------------------------------- *)
\* new Date().toISOString(): big-endian, fixed-width fields; only the
\* seconds and milliseconds fields vary within the modelled time span.
toISOString(t) == <<t \div MsPerSec, t % MsPerSec>>

\* order of two ISO strings (lexicographic on the fixed-width fields)
IsoLess(a, b) == \/ a[1] < b[1]
                 \/ a[1] = b[1] /\ a[2] < b[2]

ClockStart == MsPerSec - 1

(* ---------------------------- localStorage ----------------------------- *)
\* The value stored under 'aquavigil-history': absent, or a string that is
\* either the JSON text of a list or text that does not parse.
NoItem == [present |-> FALSE, valid |-> FALSE, val |-> <<>>]

JSONstringify(list) == [present |-> TRUE, valid |-> TRUE, val |-> list]

\* text under the key that is not JSON (written by anything else on the origin)
Unparsable == [present |-> TRUE, valid |-> FALSE, val |-> <<>>]

\* localStorage.getItem('aquavigil-history') || '[]'
getItemOrEmpty(st) == IF st.present THEN st ELSE JSONstringify(<<>>)

\* JSON.parse: throws on text that does not parse
ParseThrows(str) == ~str.valid

JSONparse(str) == str.val

(* ------------------------- history record logic ------------------------ *)
\* history.findIndex(item => item.id === data.id): 0-based, -1 if absent
findIndex(history, id) ==
    IF \E i \in 1..Len(history) : history[i].id = id
    THEN (CHOOSE i \in 1..Len(history) :
              /\ history[i].id = id
              /\ \A j \in 1..(i - 1) : history[j].id # id) - 1
    ELSE -1

\* history.splice(index, 1): remove the element at the 0-based index
splice(history, index) ==
    [j \in 1..(Len(history) - 1) |->
        IF j <= index THEN history[j] ELSE history[j + 1]]

\* a faulty variant of unshift: the entry is appended (push) instead
unshift_push(history, entry) == history \o <<entry>>

\* history.unshift(entry)
unshift(history, entry) == <<entry>> \o history

\* a faulty variant of slice: the list is written back uncut
slice_none(history, n) == history

\* a faulty variant of slice: the last n entries are kept (slice(-n))
slice_back(history, n) ==
    SubSeq(history, Len(history) - Min(n, Len(history)) + 1, Len(history))

\* history.slice(0, n)
slice(history, n) == SubSeq(history, 1, Min(n, Len(history)))

\* { ...data, viewedAt: new Date().toISOString() }
HistoryEntry(data, t) == [id |-> data.id, ph |-> data.ph, viewedAt |-> toISOString(t)]

\* a faulty variant of saveToHistory: no findIndex/splice of the existing entry
saveToHistory_noDedup(history, data, t) ==
    slice(unshift(history, HistoryEntry(data, t)), HISTORY_LIMIT)

\* a faulty variant of saveToHistory: an existing entry is moved to the front with
\* a new viewedAt but keeps the data it had
saveToHistory_keepOld(history, data, t) ==
    LET existingIndex == findIndex(history, data.id)
    IN  IF existingIndex >= 0
        THEN slice(unshift(splice(history, existingIndex),
                           [history[existingIndex + 1] EXCEPT
                                !.viewedAt = toISOString(t)]), HISTORY_LIMIT)
        ELSE slice(unshift(history, HistoryEntry(data, t)), HISTORY_LIMIT)

\* the list written back by the "Save to history" block
saveToHistory(history, data, t) ==
    LET existingIndex == findIndex(history, data.id)
        removed == IF existingIndex >= 0 THEN splice(history, existingIndex)
                   ELSE history
    IN  slice(unshift(removed, HistoryEntry(data, t)), HISTORY_LIMIT)

\* A list left in localStorage by an earlier session: k modules other than
\* the navigable ones, viewed one after the other at times 1..k; with
\* tied, the two oldest views fell into the same millisecond.
Prefill(k, tied) ==
    [j \in 1..k |-> [id |-> NumIds + (k + 1 - j), ph |-> 1,
                     viewedAt |-> toISOString(IF tied /\ j = k THEN k + 2 - j
                                              ELSE k + 1 - j)]]

\* the same, where the oldest view was of module 1, one of the navigable ones
PrefillSeen(k) == [Prefill(k, FALSE) EXCEPT ![k].id = 1]

EarlierSessions ==
    {PrefillSeen(HISTORY_LIMIT - 1), Prefill(HISTORY_LIMIT, FALSE),
     Prefill(HISTORY_LIMIT, TRUE)}

(* ------------------------------ state ---------------------------------- *)
VARIABLES
    route,        \* the page the router shows: "/", "/map", "/module",
                  \* "/statistics", "/history", "other" (a page without
                  \* modelled state), "crashed" (the tree was unmounted by an
                  \* uncaught error) or "closed" (no document is open)
    now,          \* the clock read by new Date(), in milliseconds
    nextTimer,    \* the id the next setInterval call returns
    timers,       \* the browser's live interval timers
    nextReq,      \* the sequence number of the next fetch issued
    inflight,     \* the fetches issued and not yet settled
    storage,      \* localStorage item 'aquavigil-history'
    mapPage,      \* MapPage component state
    modulePage,   \* ModuleDataPage component state and its :id parameter
    statsPage,    \* StatisticsPage component state
    historyPage,  \* HistoryPage component state
    homePage,     \* Homepage component state
    lastRecord    \* per module id, the entry built by the latest save to history

vars == <<route, now, nextTimer, timers, nextReq, inflight, storage,
          mapPage, modulePage, statsPage, historyPage, homePage, lastRecord>>

pollVars == <<mapPage, modulePage, statsPage>>

(* ------------------------- telemetry payloads -------------------------- *)
\* GET /api/modules/{id}
ModuleSnapshot(id, v) == [id |-> id, ph |-> v]

\* GET /api/modules
AllModules(v) == [i \in ModuleIds |-> ModuleSnapshot(i, v)]

\* GET /api/statistics
AggregateStats(v) == [total_modules |-> NumIds, average_ph |-> v]

\* apiService.get: resolves with the parsed body, or throws when fetch
\* rejects, the status is not 2xx, or the body is not JSON
Outcomes == {"ok", "http404", "http500", "network", "malformed"}

getThrows(outcome) == outcome # "ok"

\* the error get rethrows: Error(`HTTP ${response.status}`) for a status
\* that is not 2xx, the TypeError of a rejected fetch, the SyntaxError of
\* response.json()
getError(outcome) ==
    CASE outcome = "http404" -> "Error: HTTP 404"
      [] outcome = "http500" -> "Error: HTTP 500"
      [] outcome = "network" -> "TypeError: Failed to fetch"
      [] outcome = "malformed" -> "SyntaxError: Unexpected token"
      [] OTHER -> "none"

\* The callers of get never read the error it throws (their catch blocks
\* log it and set a fixed message), so one outcome of each kind, resolved
\* and thrown, stands for its kind when the settling of a fetch is enumerated.
OutcomeKinds ==
    {CHOOSE o \in Outcomes : getThrows(o) = thrown :
        thrown \in {getThrows(o) : o \in Outcomes}}

\* the bodies a get with this outcome can resolve with (none when it throws)
Bodies(outcome) == IF getThrows(outcome) THEN {1} ELSE Vals

(* --------------------------- component state --------------------------- *)
MapInitial ==
    [mounted |-> FALSE, sensorData |-> <<>>, loading |-> TRUE,
     error |-> NoError, interval |-> 0, first |-> 0]

ModuleInitial ==
    [mounted |-> FALSE, id |-> 0, sensor |-> <<>>, loading |-> TRUE,
     error |-> NoError, interval |-> 0, first |-> 0]

StatsInitial ==
    [mounted |-> FALSE, sensorData |-> <<>>, stats |-> <<>>, loading |-> TRUE,
     error |-> NoError, interval |-> 0, first |-> 0]

\* startup: the page is the one the document was opened on
HistoryInitial == [mounted |-> FALSE, history |-> <<>>, startup |-> FALSE]

\* stats <<>> stands for the fallback figures of useState; first is the
\* sequence number of the fetch issued by the mounted instance
HomeInitial == [mounted |-> FALSE, stats |-> <<>>, loading |-> TRUE, first |-> 0]

\* the router shows no page with modelled state, or no document is open
NoPage == route \in {"other", "closed"}

\* A state setter captured by the closure of request r still reaches the
\* component instance p: the instance that issued r is still mounted.
Reaches(p, r) == p.mounted /\ r.handle >= p.first

\* a fetch in flight: its sequence number, the page and effect run (named by
\* the interval id of that run) whose closure awaits it, and the closure's id
Request(page, handle, modId) ==
    [seq |-> nextReq, page |-> page, handle |-> handle, modId |-> modId]

Timer(id, page, modId) == [id |-> id, page |-> page, modId |-> modId]

CanIssue == nextReq <= MaxFetches

Issue(r) ==
    /\ inflight' = inflight \cup {r}
    /\ nextReq' = nextReq + 1

Settle(r) ==
    /\ inflight' = inflight \ {r}
    /\ UNCHANGED nextReq

\* a faulty variant of clearInterval: the timer is left running
clearInterval_none(interval) == timers

clearInterval(interval) == {t \in timers : t.id # interval}

(* ------------------------------- Init ---------------------------------- *)
Init ==
    /\ route = "other"
    /\ now = ClockStart
    /\ nextTimer = 1
    /\ timers = {}
    /\ nextReq = 1
    /\ inflight = {}
    /\ storage \in {NoItem, Unparsable}
                       \cup {JSONstringify(h) : h \in EarlierSessions}
    /\ mapPage = MapInitial
    /\ modulePage = ModuleInitial
    /\ statsPage = StatsInitial
    /\ historyPage = HistoryInitial
    /\ homePage = HomeInitial
    /\ lastRecord = [i \in ModuleIds |->
                        LET history == JSONparse(getItemOrEmpty(storage))
                            index == findIndex(history, i)
                        IN  IF index >= 0 THEN <<history[index + 1]>> ELSE <<>>]

\* time passes
ClockTick ==
    /\ now < ClockStart + MaxTicks
    /\ now' = now + 1
    /\ UNCHANGED <<route, nextTimer, timers, nextReq, inflight, storage, pollVars,
                   historyPage, homePage, lastRecord>>

(* ------------------------------ MapPage -------------------------------- *)
\* setSensorData(data); finally setLoading(false)
MapOnSuccess(p, data) == [p EXCEPT !.sensorData = data, !.loading = FALSE]

\* a faulty variant of MapOnFailure: setLoading(false) on the success path
\* only
MapOnFailure_stillLoading(p) == [p EXCEPT !.error = MapErrorMsg]

\* catch: setError(...); finally setLoading(false)
MapOnFailure(p) == [p EXCEPT !.error = MapErrorMsg, !.loading = FALSE]

\* the router shows /map: useState initial values, then the effect runs
\* fetchMapData() and setInterval(fetchMapData, 30000)
MapPage_mount ==
    /\ NoPage
    /\ CanIssue
    /\ route' = "/map"
    /\ mapPage' = [MapInitial EXCEPT !.mounted = TRUE, !.interval = nextTimer,
                                     !.first = nextTimer]
    /\ Issue(Request("/map", nextTimer, 0))
    /\ timers' = timers \cup {Timer(nextTimer, "/map", 0)}
    /\ nextTimer' = nextTimer + 1
    /\ UNCHANGED <<now, storage, modulePage, statsPage, historyPage, homePage, lastRecord>>

\* the interval timer fires: fetchMapData() is called again
MapPage_tick ==
    \E t \in timers :
        /\ t.page = "/map"
        /\ CanIssue
        /\ Issue(Request("/map", t.id, 0))
        /\ UNCHANGED <<route, now, nextTimer, timers, storage, pollVars,
                       historyPage, homePage, lastRecord>>

\* a faulty variant of fetchMapData_continue: the module list is kept in a
\* store that the StatisticsPage shows as well
fetchMapData_continue_shared(r, outcome, v) ==
        /\ r \in inflight
        /\ r.page = "/map"
        /\ Settle(r)
        /\ mapPage' = IF ~Reaches(mapPage, r) THEN mapPage
                      ELSE IF getThrows(outcome) THEN MapOnFailure(mapPage)
                      ELSE MapOnSuccess(mapPage, AllModules(v))
        /\ statsPage' = IF getThrows(outcome) \/ ~statsPage.mounted THEN statsPage
                        ELSE [statsPage EXCEPT !.sensorData = AllModules(v)]
        /\ UNCHANGED <<route, now, nextTimer, timers, storage, modulePage,
                       historyPage, homePage, lastRecord>>

\* the continuation of fetchMapData for request r settling with outcome
fetchMapData_continue(r, outcome, v) ==
        /\ r \in inflight
        /\ r.page = "/map"
        /\ Settle(r)
        /\ mapPage' = IF ~Reaches(mapPage, r) THEN mapPage
                      ELSE IF getThrows(outcome) THEN MapOnFailure(mapPage)
                      ELSE MapOnSuccess(mapPage, AllModules(v))
        /\ UNCHANGED <<route, now, nextTimer, timers, storage, modulePage,
                       statsPage, historyPage, homePage, lastRecord>>

\* the awaited apiService.get('/api/modules') settles
fetchMapData_settle ==
    \E r \in inflight, outcome \in OutcomeKinds :
        \E v \in Bodies(outcome) : fetchMapData_continue(r, outcome, v)

\* the router leaves /map: the effect cleanup runs clearInterval(interval)
MapPage_unmount ==
    /\ route = "/map"
    /\ route' = "other"
    /\ timers' = clearInterval(mapPage.interval)
    /\ mapPage' = MapInitial
    /\ UNCHANGED <<now, nextTimer, nextReq, inflight, storage, modulePage, statsPage,
                   historyPage, homePage, lastRecord>>

(* --------------------------- ModuleDataPage ---------------------------- *)
\* a faulty variant of ModuleOnSuccess: once a snapshot is held, later results
\* are dropped
ModuleOnSuccess_keepFirst(p, data) ==
    [p EXCEPT !.sensor = IF p.sensor = <<>> THEN <<data>> ELSE p.sensor,
              !.loading = FALSE]

\* setSensor(data); finally setLoading(false)
ModuleOnSuccess(p, data) == [p EXCEPT !.sensor = <<data>>, !.loading = FALSE]

\* a faulty variant of ModuleOnFailure: the held snapshot is blanked on failure
ModuleOnFailure_blank(p) ==
    [p EXCEPT !.sensor = <<>>, !.error = ModuleErrorMsg, !.loading = FALSE]

\* catch: setError(...); finally setLoading(false)
ModuleOnFailure(p) == [p EXCEPT !.error = ModuleErrorMsg, !.loading = FALSE]

\* a faulty variant of ModuleEffect: setInterval alone, no call of
\* fetchModuleData() before it
ModuleEffect_noFirstFetch(id) ==
    /\ timers' = clearInterval(modulePage.interval)
                     \cup {Timer(nextTimer, "/module", id)}
    /\ nextTimer' = nextTimer + 1
    /\ UNCHANGED <<inflight, nextReq>>

\* the effect body for parameter id: fetchModuleData() and
\* setInterval(fetchModuleData, 15000)
ModuleEffect(id) ==
    /\ Issue(Request("/module", nextTimer, id))
    /\ timers' = clearInterval(modulePage.interval)
                     \cup {Timer(nextTimer, "/module", id)}
    /\ nextTimer' = nextTimer + 1

\* the router shows /module/:id
ModuleDataPage_mount ==
    \E id \in ModuleIds :
        /\ NoPage
        /\ CanIssue
        /\ route' = "/module"
        /\ modulePage' = [ModuleInitial EXCEPT !.mounted = TRUE, !.id = id,
                                               !.interval = nextTimer,
                                               !.first = nextTimer]
        /\ ModuleEffect(id)
        /\ UNCHANGED <<now, storage, mapPage, statsPage, historyPage, homePage, lastRecord>>

\* the :id parameter changes while the page stays mounted: the cleanup of
\* the old effect runs, then the effect runs again; component state is kept
ModuleDataPage_idChange ==
    \E id \in ModuleIds :
        /\ route = "/module"
        /\ id # modulePage.id
        /\ CanIssue
        /\ modulePage' = [modulePage EXCEPT !.id = id, !.interval = nextTimer]
        /\ ModuleEffect(id)
        /\ UNCHANGED <<route, now, storage, mapPage, statsPage, historyPage, homePage,
                       lastRecord>>

\* a faulty variant of ModuleDataPage_tick: the callback gives up once an
\* error is set
ModuleDataPage_tick_unlessError ==
    \E t \in timers :
        /\ t.page = "/module"
        /\ modulePage.error = NoError
        /\ CanIssue
        /\ Issue(Request("/module", t.id, t.modId))
        /\ UNCHANGED <<route, now, nextTimer, timers, storage, pollVars,
                       historyPage, homePage, lastRecord>>

\* the interval timer fires: fetchModuleData() is called again
ModuleDataPage_tick ==
    \E t \in timers :
        /\ t.page = "/module"
        /\ CanIssue
        /\ Issue(Request("/module", t.id, t.modId))
        /\ UNCHANGED <<route, now, nextTimer, timers, storage, pollVars,
                       historyPage, homePage, lastRecord>>

\* the continuation of fetchModuleData after a resolved get: setSensor,
\* the save to history (JSON.parse may throw into the catch), finally
ModuleResolved(r, data) ==
    LET str == getItemOrEmpty(storage)
        reaches == Reaches(modulePage, r)
    IN  IF ParseThrows(str)
        THEN /\ modulePage' = IF reaches
                              THEN ModuleOnFailure(ModuleOnSuccess(modulePage, data))
                              ELSE modulePage
             /\ UNCHANGED <<storage, lastRecord>>
        ELSE /\ modulePage' = IF reaches THEN ModuleOnSuccess(modulePage, data)
                              ELSE modulePage
             /\ storage' = JSONstringify(saveToHistory(JSONparse(str), data, now))
             /\ lastRecord' = [lastRecord EXCEPT ![data.id] = <<HistoryEntry(data, now)>>]

\* the continuation of fetchModuleData after a rejected get
ModuleRejected(r) ==
    /\ modulePage' = IF Reaches(modulePage, r) THEN ModuleOnFailure(modulePage)
                     ELSE modulePage
    /\ UNCHANGED <<storage, lastRecord>>

\* the continuation of fetchModuleData for request r settling with outcome
fetchModuleData_continue(r, outcome, v) ==
        /\ r \in inflight
        /\ r.page = "/module"
        /\ Settle(r)
        /\ IF getThrows(outcome) THEN ModuleRejected(r)
           ELSE ModuleResolved(r, ModuleSnapshot(r.modId, v))
        /\ UNCHANGED <<route, now, nextTimer, timers, mapPage, statsPage,
                       historyPage, homePage>>

\* the awaited apiService.get(`/api/modules/${id}`) settles
fetchModuleData_settle ==
    \E r \in inflight, outcome \in OutcomeKinds :
        \E v \in Bodies(outcome) : fetchModuleData_continue(r, outcome, v)

\* the router leaves /module/:id: cleanup runs clearInterval(interval)
ModuleDataPage_unmount ==
    /\ route = "/module"
    /\ route' = "other"
    /\ timers' = clearInterval(modulePage.interval)
    /\ modulePage' = ModuleInitial
    /\ UNCHANGED <<now, nextTimer, nextReq, inflight, storage, mapPage, statsPage,
                   historyPage, homePage, lastRecord>>

(* --------------------------- StatisticsPage ---------------------------- *)
\* setSensorData(modulesData); setStats(statisticsData); finally
StatsOnSuccess(p, modulesData, statisticsData) ==
    [p EXCEPT !.sensorData = modulesData, !.stats = <<statisticsData>>,
              !.loading = FALSE]

\* catch: setError(...); finally setLoading(false)
StatsOnFailure(p) == [p EXCEPT !.error = StatsErrorMsg, !.loading = FALSE]

\* the router shows /statistics: fetchData() and setInterval(fetchData, 60000)
StatisticsPage_mount ==
    /\ NoPage
    /\ CanIssue
    /\ route' = "/statistics"
    /\ statsPage' = [StatsInitial EXCEPT !.mounted = TRUE, !.interval = nextTimer,
                                         !.first = nextTimer]
    /\ Issue(Request("/statistics", nextTimer, 0))
    /\ timers' = timers \cup {Timer(nextTimer, "/statistics", 0)}
    /\ nextTimer' = nextTimer + 1
    /\ UNCHANGED <<now, storage, mapPage, modulePage, historyPage, homePage, lastRecord>>

\* the interval timer fires: fetchData() is called again
StatisticsPage_tick ==
    \E t \in timers :
        /\ t.page = "/statistics"
        /\ CanIssue
        /\ Issue(Request("/statistics", t.id, 0))
        /\ UNCHANGED <<route, now, nextTimer, timers, storage, pollVars,
                       historyPage, homePage, lastRecord>>

\* a faulty variant of fetchData_continue: the two gets are awaited one after
\* the other and each result is set as soon as it arrives
fetchData_continue_sequential(r, modulesOutcome, statisticsOutcome, v, w) ==
        /\ r \in inflight
        /\ r.page = "/statistics"
        /\ Settle(r)
        /\ statsPage' =
               IF ~Reaches(statsPage, r) THEN statsPage
               ELSE IF getThrows(modulesOutcome) THEN StatsOnFailure(statsPage)
               ELSE IF getThrows(statisticsOutcome)
               THEN StatsOnFailure([statsPage EXCEPT !.sensorData = AllModules(v)])
               ELSE StatsOnSuccess(statsPage, AllModules(v), AggregateStats(w))
        /\ UNCHANGED <<route, now, nextTimer, timers, storage, mapPage,
                       modulePage, historyPage, homePage, lastRecord>>

\* the continuation of fetchData for request r: the awaited Promise.all
\* rejects when either get throws and resolves when both have resolved
fetchData_continue(r, modulesOutcome, statisticsOutcome, v, w) ==
        /\ r \in inflight
        /\ r.page = "/statistics"
        /\ Settle(r)
        /\ statsPage' =
               IF ~Reaches(statsPage, r) THEN statsPage
               ELSE IF getThrows(modulesOutcome) \/ getThrows(statisticsOutcome)
               THEN StatsOnFailure(statsPage)
               ELSE StatsOnSuccess(statsPage, AllModules(v), AggregateStats(w))
        /\ UNCHANGED <<route, now, nextTimer, timers, storage, mapPage,
                       modulePage, historyPage, homePage, lastRecord>>

\* the awaited Promise.all of the two gets settles
fetchData_settle ==
    \E r \in inflight, modulesOutcome \in OutcomeKinds,
       statisticsOutcome \in OutcomeKinds :
        \E v \in Bodies(modulesOutcome), w \in Bodies(statisticsOutcome) :
            fetchData_continue(r, modulesOutcome, statisticsOutcome, v, w)

\* the router leaves /statistics: cleanup runs clearInterval(interval)
StatisticsPage_unmount ==
    /\ route = "/statistics"
    /\ route' = "other"
    /\ timers' = clearInterval(statsPage.interval)
    /\ statsPage' = StatsInitial
    /\ UNCHANGED <<now, nextTimer, nextReq, inflight, storage, mapPage, modulePage,
                   historyPage, homePage, lastRecord>>

(* ----------------------------- HistoryPage ----------------------------- *)
\* the router shows /history: the effect parses the stored item into the
\* component state; a JSON.parse that throws is not caught and takes the
\* application down
HistoryPage_mount ==
    LET str == getItemOrEmpty(storage)
    IN  /\ NoPage
        /\ IF ParseThrows(str)
           THEN /\ route' = "crashed"
                /\ UNCHANGED historyPage
           ELSE /\ route' = "/history"
                /\ historyPage' = [mounted |-> TRUE, history |-> JSONparse(str),
                                   startup |-> (route = "closed")]
        /\ UNCHANGED <<now, nextTimer, timers, nextReq, inflight, storage, pollVars,
                       lastRecord, homePage>>

\* a faulty variant of clearHistory: setHistory([]) without the removeItem
clearHistory_stateOnly ==
    /\ route = "/history"
    /\ Len(historyPage.history) > 0
    /\ historyPage' = [historyPage EXCEPT !.history = <<>>]
    /\ UNCHANGED <<route, now, nextTimer, timers, nextReq, inflight, storage,
                   pollVars, lastRecord, homePage>>

\* the "Clear History" button, rendered while history.length > 0
clearHistory ==
    /\ route = "/history"
    /\ Len(historyPage.history) > 0
    /\ storage' = NoItem
    /\ historyPage' = [historyPage EXCEPT !.history = <<>>]
    /\ UNCHANGED <<route, now, nextTimer, timers, nextReq, inflight, pollVars, lastRecord, homePage>>

\* the router leaves /history
HistoryPage_unmount ==
    /\ route = "/history"
    /\ route' = "other"
    /\ historyPage' = HistoryInitial
    /\ UNCHANGED <<now, nextTimer, timers, nextReq, inflight, storage, pollVars, lastRecord, homePage>>

(* ------------------------------ Homepage ------------------------------- *)
\* the router shows /: the effect calls fetchStats() once, no timer
Homepage_mount ==
    /\ NoPage
    /\ CanIssue
    /\ route' = "/"
    /\ homePage' = [HomeInitial EXCEPT !.mounted = TRUE, !.first = nextReq]
    /\ Issue(Request("/", 0, 0))
    /\ UNCHANGED <<now, nextTimer, timers, storage, pollVars, historyPage,
                   lastRecord>>

\* a faulty variant of fetchStats_continue: a resolved get also saves an
\* entry in the history item
fetchStats_continue_saving(r, outcome, v) ==
    /\ r \in inflight
    /\ r.page = "/"
    /\ Settle(r)
    /\ homePage' = IF ~(homePage.mounted /\ r.seq = homePage.first) THEN homePage
                   ELSE IF getThrows(outcome)
                   THEN [homePage EXCEPT !.loading = FALSE]
                   ELSE [homePage EXCEPT !.stats = <<AggregateStats(v)>>,
                                         !.loading = FALSE]
    /\ storage' = IF getThrows(outcome) \/ ParseThrows(getItemOrEmpty(storage))
                  THEN storage
                  ELSE JSONstringify(saveToHistory(JSONparse(getItemOrEmpty(storage)),
                                                   ModuleSnapshot(1, v), now))
    /\ UNCHANGED <<route, now, nextTimer, timers, pollVars, historyPage,
                   lastRecord>>

\* the continuation of fetchStats for request r: setStats(data) when the get
\* resolved, the fallback figures are kept when it threw; finally
\* setLoading(false)
fetchStats_continue(r, outcome, v) ==
    /\ r \in inflight
    /\ r.page = "/"
    /\ Settle(r)
    /\ homePage' = IF ~(homePage.mounted /\ r.seq = homePage.first) THEN homePage
                   ELSE IF getThrows(outcome)
                   THEN [homePage EXCEPT !.loading = FALSE]
                   ELSE [homePage EXCEPT !.stats = <<AggregateStats(v)>>,
                                         !.loading = FALSE]
    /\ UNCHANGED <<route, now, nextTimer, timers, storage, pollVars, historyPage,
                   lastRecord>>

\* the awaited apiService.get('/api/statistics') of the Homepage settles
fetchStats_settle ==
    \E r \in inflight, outcome \in OutcomeKinds :
        \E v \in Bodies(outcome) : fetchStats_continue(r, outcome, v)

\* the router leaves /
Homepage_unmount ==
    /\ route = "/"
    /\ route' = "other"
    /\ homePage' = HomeInitial
    /\ UNCHANGED <<now, nextTimer, timers, nextReq, inflight, storage, pollVars,
                   historyPage, lastRecord>>

(* ------------------------------- restart ------------------------------- *)
(* ------------------------------- restart ------------------------------- *)
\* a faulty variant of Close: the history is kept for the session only and
\* goes with the document
Close_wipe ==
    /\ route # "closed"
    /\ route' = "closed"
    /\ timers' = {}
    /\ inflight' = {}
    /\ mapPage' = MapInitial
    /\ modulePage' = ModuleInitial
    /\ statsPage' = StatsInitial
    /\ historyPage' = HistoryInitial
    /\ homePage' = HomeInitial
    /\ storage' = NoItem
    /\ UNCHANGED <<now, nextTimer, nextReq, lastRecord>>

\* The tab is closed (or the browser quits): the document with every
\* component, timer and pending fetch is discarded; localStorage stays.  The
\* next document is opened by one of the mount actions.
Close ==
    /\ route # "closed"
    /\ route' = "closed"
    /\ timers' = {}
    /\ inflight' = {}
    /\ mapPage' = MapInitial
    /\ modulePage' = ModuleInitial
    /\ statsPage' = StatsInitial
    /\ historyPage' = HistoryInitial
    /\ homePage' = HomeInitial
    /\ UNCHANGED <<now, nextTimer, nextReq, storage, lastRecord>>

(* ---------------------------- specification ---------------------------- *)
Next ==
    \/ ClockTick
    \/ MapPage_mount
    \/ MapPage_tick
    \/ fetchMapData_settle
    \/ MapPage_unmount
    \/ ModuleDataPage_mount
    \/ ModuleDataPage_idChange
    \/ ModuleDataPage_tick
    \/ fetchModuleData_settle
    \/ ModuleDataPage_unmount
    \/ StatisticsPage_mount
    \/ StatisticsPage_tick
    \/ fetchData_settle
    \/ StatisticsPage_unmount
    \/ HistoryPage_mount
    \/ clearHistory
    \/ HistoryPage_unmount
    \/ Homepage_mount
    \/ fetchStats_settle
    \/ Homepage_unmount
    \/ Close

Spec == Init /\ [][Next]_vars

\* The browser runs the callback of a live interval timer again and again:
\* a tick that stays possible eventually happens.
FairSpec ==
    /\ Spec
    /\ WF_vars(MapPage_tick)
    /\ WF_vars(ModuleDataPage_tick)
    /\ WF_vars(StatisticsPage_tick)

(* ======================================================================= *)
(*                      Properties of the History Cache                    *)
(* ======================================================================= *)
\* the stored list as list() reads it
Stored == JSONparse(getItemOrEmpty(storage))

StoredNext == JSONparse(getItemOrEmpty(storage'))

IdsOf(history) == {history[i].id : i \in 1..Len(history)}

\* a step that is a record call: a fetchModuleData continuation that
\* resolved with snapshot data and ran the save to history
RecordCall(data) ==
    \E r \in inflight :
        /\ r.modId = data.id
        /\ fetchModuleData_continue(r, "ok", data.ph)

Snapshots == {ModuleSnapshot(id, v) : id \in ModuleIds, v \in Vals}

\* Module 1, whose view an earlier session left as the oldest of 19
\* entries, was recorded again in this session (a record of another module
\* would have made the list longer).
RecordedAgain ==
    /\ Len(Stored) = HISTORY_LIMIT - 1
    /\ Stored[1].id = 1
    /\ IsoLess(toISOString(HISTORY_LIMIT), Stored[1].viewedAt)

\* C1: after every record call no two entries of the stored list have the
\* same id.
C1_NoDuplicateIds ==
    \A i, j \in 1..Len(Stored) : Stored[i].id = Stored[j].id => i = j

\* C1 witness: module 1 was recorded again and the list holds the single
\* entry for it, at the front.
C1_Witness ==
    /\ RecordedAgain
    /\ \A j \in 2..Len(Stored) : Stored[j].id # 1

\* C2: the stored list never has more than 20 entries, and a record call on
\* a list of 20 entries leaves a list of exactly 20 entries.
C2_AtMostTwenty ==
    /\ [](Len(Stored) <= HISTORY_LIMIT)
    /\ [][Len(Stored) = HISTORY_LIMIT /\ inflight' # inflight
            => \A data \in Snapshots :
                   RecordCall(data) => Len(StoredNext) = HISTORY_LIMIT]_vars

\* C2 witness: a record call on the full list of the earlier session has
\* inserted a navigable module and dropped the oldest entry.
C2_Witness ==
    /\ Len(Stored) = HISTORY_LIMIT
    /\ Stored[1].id \in ModuleIds
    /\ Stored[HISTORY_LIMIT].id = NumIds + 2
    /\ Stored[HISTORY_LIMIT].viewedAt = toISOString(2)

\* entries i and i+1 were both written by record calls of this session
BothRecorded(i) == Stored[i].id \in ModuleIds /\ Stored[i + 1].id \in ModuleIds

C4_LatestSnapshotWins ==
    \A id \in ModuleIds :
        /\ \A i \in 1..Len(Stored) :
               Stored[i].id = id => lastRecord[id] = <<Stored[i]>>
        /\ Cardinality({i \in 1..Len(Stored) : Stored[i].id = id}) <= 1

\* C4 witness: module 1 was recorded again, after the clock advanced and
\* with another body than its earlier entry had, and the one entry carries
\* that call.
C4_Witness ==
    /\ RecordedAgain
    /\ modulePage.sensor = <<ModuleSnapshot(1, 2)>>
    /\ Cardinality({i \in 1..Len(Stored) : Stored[i].id = 1}) = 1
    /\ Stored[1] = [id |-> 1, ph |-> 2, viewedAt |-> toISOString(ClockStart + 1)]

\* C5: on a list of 20 entries, record of an id not in the list drops the
\* last entry, whose viewedAt no other entry undercuts, and keeps the other
\* 19 entries unchanged and in order behind the new entry.
C5_EvictsOldestOnly ==
    [][Len(Stored) = HISTORY_LIMIT /\ inflight' # inflight
       => \A data \in Snapshots :
          data.id \notin IdsOf(Stored) /\ RecordCall(data)
          => /\ Len(StoredNext) = HISTORY_LIMIT
             /\ StoredNext[1].id = data.id
             /\ \A j \in 1..(HISTORY_LIMIT - 1) : StoredNext[j + 1] = Stored[j]
             /\ Stored[HISTORY_LIMIT].id \notin IdsOf(StoredNext)
             /\ \A j \in 1..HISTORY_LIMIT :
                    ~IsoLess(Stored[j].viewedAt,
                             Stored[HISTORY_LIMIT].viewedAt)]_vars

\* C5 witness: the full list of the earlier session after one record of a
\* navigable module: 19 old entries behind it, the oldest gone.
C5_Witness ==
    /\ Len(Stored) = HISTORY_LIMIT
    /\ Stored[1].id \in ModuleIds
    /\ Stored[2].id = NumIds + HISTORY_LIMIT
    /\ \A j \in 2..HISTORY_LIMIT : Stored[j].id = NumIds + HISTORY_LIMIT + 2 - j

(* ======================================================================= *)
(*                         Properties of the pollers                       *)
(* ======================================================================= *)
\* the effect run that issued r has not been cleaned up: its interval lives
Live(r) == \E t \in timers : t.id = r.handle

Cancelled(r) == ~Live(r)

Failing == Outcomes \ {"ok"}

\* C6: after any tick of a non-cancelled poller whose fetch succeeds, the
\* exposed state has data equal to the new snapshot, error null and loading
\* false (MapPage, ModuleDataPage, StatisticsPage).
C6_SuccessClearsError ==
    [][/\ \A r \in inflight, v \in Vals :
              fetchMapData_continue(r, "ok", v) /\ Live(r)
              => /\ mapPage'.sensorData = AllModules(v)
                 /\ mapPage'.error = NoError
                 /\ ~mapPage'.loading
       /\ \A r \in inflight, v \in Vals :
              fetchModuleData_continue(r, "ok", v) /\ Live(r)
              => /\ modulePage'.sensor = <<ModuleSnapshot(r.modId, v)>>
                 /\ modulePage'.error = NoError
                 /\ ~modulePage'.loading
       /\ \A r \in inflight, v \in Vals, w \in Vals :
              fetchData_continue(r, "ok", "ok", v, w) /\ Live(r)
              => /\ statsPage'.sensorData = AllModules(v)
                 /\ statsPage'.stats = <<AggregateStats(w)>>
                 /\ statsPage'.error = NoError
                 /\ ~statsPage'.loading]_vars

\* C7: a tick whose fetch fails leaves the data held by the poller unchanged
\* and sets its error (so a failing first tick gives data = null with the
\* error set, and a later failure keeps the earlier snapshot).
C7_FailureKeepsData ==
    [][\A r \in inflight \ inflight' :
        /\ r.page = "/map" /\ Reaches(mapPage, r)
           => \A outcome \in Failing :
                  fetchMapData_continue(r, outcome, 1)
                  => /\ mapPage'.sensorData = mapPage.sensorData
                     /\ mapPage'.error # NoError
        /\ r.page = "/module" /\ Reaches(modulePage, r)
           => \A outcome \in Failing :
                  fetchModuleData_continue(r, outcome, 1)
                  => /\ modulePage'.sensor = modulePage.sensor
                     /\ modulePage'.error # NoError
        /\ r.page = "/statistics" /\ Reaches(statsPage, r)
           => \A o1 \in Outcomes, o2 \in Outcomes :
                  \A v \in Bodies(o1), w \in Bodies(o2) :
                      /\ getThrows(o1) \/ getThrows(o2)
                      /\ fetchData_continue(r, o1, o2, v, w)
                      => /\ statsPage'.sensorData = statsPage.sensorData
                         /\ statsPage'.stats = statsPage.stats
                         /\ statsPage'.error # NoError]_vars

\* C7 witness: the only fetch issued so far, the first tick of a mounted
\* ModuleDataPage, has failed: no snapshot, error set, loading cleared.
C7_Witness ==
    /\ route = "/module"
    /\ nextReq = 2
    /\ inflight = {}
    /\ modulePage.sensor = <<>>
    /\ modulePage.error = ModuleErrorMsg
    /\ ~modulePage.loading

\* C8: a fetch that settles after the effect run that issued it was
\* cancelled (cleanup on unmount or id change) updates no data, error or
\* loading and writes nothing to the History Cache.
C8_NoUpdateAfterCancel ==
    [][\A r \in inflight :
           r \notin inflight' /\ Cancelled(r) /\ route' # "closed"
           => UNCHANGED <<mapPage, modulePage, statsPage, storage>>]_vars

\* C9: each poll handle has at most one fetch in flight.
C9_OneInFlightPerHandle ==
    \A r1, r2 \in inflight :
        r1.page # "/" /\ r2.page # "/" /\ r1.handle = r2.handle => r1 = r2

\* C10: when the module id parameter changes, the poll cycle for the new id
\* starts with data = null, loading = true, error = null, and the page never
\* holds a snapshot fetched for another id than its parameter.
C10_FreshStateOnIdChange ==
    /\ [][modulePage.mounted /\ modulePage'.mounted
            /\ modulePage'.id # modulePage.id
          => /\ modulePage'.sensor = <<>>
             /\ modulePage'.loading
             /\ modulePage'.error = NoError]_vars
    /\ [](modulePage.mounted /\ modulePage.sensor # <<>>
            => modulePage.sensor[1].id = modulePage.id)

(* ======================================================================= *)
(*                       Unreadable storage, clearing                      *)
(* ======================================================================= *)
\* C11: the HistoryPage load on an item that is absent or does not parse
\* shows the empty list and raises no error.
C11_UnreadableReadsEmpty ==
    [][/\ NoPage /\ route' \in {"/history", "crashed"}
       /\ ~storage.present \/ ParseThrows(storage)
       /\ HistoryPage_mount
       => /\ route' = "/history"
          /\ historyPage'.history = <<>>]_vars

\* C12: when the stored item does not parse and a module-detail fetch of a
\* live effect run resolves, the page ends with the new snapshot and no
\* error, and the item afterwards is a valid list containing the new entry.
C12_CorruptStoreRecovered ==
    [][\A r \in inflight \ inflight' :
           /\ r.page = "/module"
           /\ Reaches(modulePage, r)
           /\ ParseThrows(getItemOrEmpty(storage))
           => \A v \in Vals :
                  fetchModuleData_continue(r, "ok", v)
                  => /\ modulePage'.sensor = <<ModuleSnapshot(r.modId, v)>>
                     /\ modulePage'.error = NoError
                     /\ storage'.present /\ ~ParseThrows(storage')
                     /\ r.modId \in IdsOf(StoredNext)]_vars

\* C13: after clear, list is empty whatever the list held before, and the
\* item is removed from localStorage, so a later load of the HistoryPage
\* lists nothing either.  (A clear step is the one step that empties the
\* shown list while the HistoryPage stays mounted.)
C13_ClearThenListEmpty ==
    [][/\ historyPage.mounted /\ historyPage'.mounted
       /\ historyPage.history # <<>>
       /\ historyPage'.history # historyPage.history
       => /\ historyPage'.history = <<>>
          /\ ~storage'.present
          /\ ~ParseThrows(getItemOrEmpty(storage'))
          /\ StoredNext = <<>>]_vars

\* C13 witness: module 1 was recorded in this session, so the item was
\* present with at least its entry, and after the clear the HistoryPage
\* shows nothing and the item is gone.
C13_Witness ==
    /\ route = "/history"
    /\ lastRecord[1] # <<>>
    /\ historyPage.history = <<>>
    /\ storage = NoItem

(* ======================================================================= *)
(*                              Failure kinds                              *)
(* ======================================================================= *)
\* the kind the failure taxonomy gives the outcome of a single-module fetch
FailureKind(outcome) == IF outcome = "http404" THEN "NotFound" ELSE "TransportError"

\* C14: a 404 to a single-module fetch is told apart from every other
\* failure by the client (get throws a different error for it), and the
\* ModuleDataPage exposes the kind unchanged: no step is the continuation
\* of a failure of one kind and equally of a failure of the other kind.
C14_NotFoundDistinguished ==
    /\ [](\A o \in Failing \ {"http404"} : getError(o) # getError("http404"))
    /\ [][\A r \in inflight \ inflight' :
              r.page = "/module" /\ Reaches(modulePage, r)
              => \A o1, o2 \in Failing :
                     /\ fetchModuleData_continue(r, o1, 1)
                     /\ fetchModuleData_continue(r, o2, 1)
                     => FailureKind(o1) = FailureKind(o2)]_vars

(* ======================================================================= *)
(*                          The poll cycle in time                         *)
(* ======================================================================= *)
\* the fetches a step issues
Issued == inflight' \ inflight

\* request r belongs to the effect run whose interval timer is t
IssuedBy(r, t) == r.handle = t.id /\ r.page = t.page /\ r.modId = t.modId

\* C15: the step that starts a poll cycle (registers its interval timer)
\* issues the first fetch of that cycle, so no tick precedes it, and while
\* the timer is live every page's tick is ready to issue a further fetch
\* (within the budget of fetches that are followed).
C15_FirstFetchThenEveryTick ==
    /\ [][\A t \in timers' \ timers : \E r \in Issued : IssuedBy(r, t)]_vars
    /\ [](CanIssue =>
            /\ (\E t \in timers : t.page = "/map") => ENABLED MapPage_tick
            /\ (\E t \in timers : t.page = "/module") => ENABLED ModuleDataPage_tick
            /\ (\E t \in timers : t.page = "/statistics")
                   => ENABLED StatisticsPage_tick)

\* C15 witness: a ModuleDataPage whose first effect run has two fetches in
\* flight, the one issued at the start and the one of a tick.
C15_Witness ==
    /\ route = "/module"
    /\ nextTimer = 2
    /\ \E t \in timers : t.id = modulePage.interval
    /\ Cardinality({r \in inflight : r.handle = modulePage.interval}) = 2

\* handle h is the interval of an effect run whose cleanup has not run
Current(h) ==
    \/ mapPage.mounted /\ mapPage.interval = h
    \/ modulePage.mounted /\ modulePage.interval = h
    \/ statsPage.mounted /\ statsPage.interval = h

\* the handles started so far
Started == 1..(nextTimer - 1)

\* C16: a cancelled handle issues no fetch (every fetch of a poller comes from
\* the effect run being started or from one not yet cleaned up), a
\* cancelled handle stays cancelled, and clearInterval on a cancelled handle
\* leaves the timers as they are.
C16_CancelIsPermanent ==
    /\ [][\A r \in Issued :
              r.page # "/" => Current(r.handle) \/ r.handle = nextTimer]_vars
    /\ [][\A h \in Started : ~Current(h) => ~Current(h)']_vars
    /\ [](\A h \in Started :
              ~Current(h) => /\ \A t \in timers : t.id # h
                             /\ clearInterval(h) = timers)

\* C16 witness: the first effect run was cleaned up, its timer is gone and a
\* fetch could still be issued.
C16_Witness ==
    /\ 1 \in Started
    /\ ~Current(1)
    /\ CanIssue
    /\ \A t \in timers : t.id # 1

\* C17: a failed tick never stops the poll cycle.  The settling of a fetch
\* leaves the timers and the effect runs as they are; a mounted page whose
\* error is set still has its tick ready and, the timer being fair, goes on
\* issuing fetches (the count of fetches grows only by its own while it is
\* mounted, and it does not stay mounted with its error set and fetches
\* left to follow); and when a fetch of the live effect run resolves on a
\* page whose error is set, the exposed data becomes its snapshot.
C17_FailureDoesNotStopCycle ==
    /\ [][inflight' # inflight /\ Issued = {} /\ route' # "closed"
            => /\ timers' = timers
               /\ \A h \in Started : Current(h) <=> Current(h)']_vars
    /\ [](CanIssue =>
            /\ mapPage.mounted /\ mapPage.error # NoError
                   => ENABLED MapPage_tick
            /\ modulePage.mounted /\ modulePage.error # NoError
                   => ENABLED ModuleDataPage_tick
            /\ statsPage.mounted /\ statsPage.error # NoError
                   => ENABLED StatisticsPage_tick)
    /\ [][nextReq' # nextReq
            => /\ Issued # {}
               /\ modulePage.mounted => \A r \in Issued : r.page = "/module"]_vars
    /\ []<>~(modulePage.mounted /\ modulePage.error # NoError /\ CanIssue)
    /\ [][\A r \in inflight \ inflight' :
              /\ r.page = "/map" /\ Reaches(mapPage, r)
                   /\ mapPage.error # NoError
                 => \A v \in Vals :
                        fetchMapData_continue(r, "ok", v)
                        => mapPage'.sensorData = AllModules(v)
              /\ r.page = "/module" /\ Reaches(modulePage, r)
                   /\ Current(r.handle) /\ modulePage.error # NoError
                 => \A v \in Vals :
                        fetchModuleData_continue(r, "ok", v)
                        => modulePage'.sensor = <<ModuleSnapshot(r.modId, v)>>
              /\ r.page = "/statistics" /\ Reaches(statsPage, r)
                   /\ statsPage.error # NoError
                 => \A v, w \in Vals :
                        fetchData_continue(r, "ok", "ok", v, w)
                        => /\ statsPage'.sensorData = AllModules(v)
                           /\ statsPage'.stats = <<AggregateStats(w)>>]_vars

\* C17 witness: of the two fetches of the one effect run of a mounted
\* ModuleDataPage one was rejected and one resolved: the error is set, the
\* timer is live and the resolved snapshot is exposed.
C17_Witness ==
    /\ route = "/module"
    /\ nextTimer = 2
    /\ nextReq = 3
    /\ inflight = {}
    /\ Current(1)
    /\ \E t \in timers : t.id = 1
    /\ ~ParseThrows(getItemOrEmpty(storage))
    /\ modulePage.error # NoError
    /\ modulePage.sensor # <<>>

(* ======================================================================= *)
(*                     Polls and the History Cache                         *)
(* ======================================================================= *)
\* C18: every module-detail fetch that resolves records its snapshot:
\* right after it the first stored entry has the id and the values of the
\* snapshot; a fetch that is rejected leaves the stored item unchanged.
C18_SuccessfulPollRecords ==
    [][\A r \in inflight \ inflight' :
           r.page = "/module"
           => /\ \A v \in Vals :
                     fetchModuleData_continue(r, "ok", v)
                     => /\ Len(StoredNext) >= 1
                        /\ StoredNext[1].id = r.modId
                        /\ StoredNext[1].ph = v
              /\ \A outcome \in Failing :
                     fetchModuleData_continue(r, outcome, 1)
                     => storage' = storage]_vars

\* the position of id in the list (0 if absent)
PositionOf(history, id) == findIndex(history, id) + 1

\* C19: after every record call the first stored entry is the one of the
\* recorded id, whether the id was absent or present at any position, and
\* the entries of the other ids follow in the order they had.
C19_RecordPlacesAtFront ==
    [][inflight' # inflight
       => \A data \in Snapshots :
              RecordCall(data)
              => /\ PositionOf(StoredNext, data.id) = 1
                 /\ \A i, j \in 1..Len(Stored) :
                        /\ i < j
                        /\ Stored[i].id # data.id /\ Stored[j].id # data.id
                        /\ Stored[j].id \in IdsOf(StoredNext)
                        => PositionOf(StoredNext, Stored[i].id)
                               < PositionOf(StoredNext, Stored[j].id)]_vars

\* C20: the save to history reads, computes and writes in one step: after
\* each resolved module-detail fetch, in whatever order the fetches in
\* flight settle, its entry is stored and so is every entry stored before
\* (the one for the same id replaced, the last one of a full list evicted),
\* and what a step writes is always a complete list.
C20_NoLostUpdate ==
    /\ [][storage' # storage => ~ParseThrows(getItemOrEmpty(storage'))]_vars
    /\ [][inflight' # inflight
          => \A data \in Snapshots :
                 RecordCall(data)
                 => /\ \E i \in 1..Len(StoredNext) :
                           /\ StoredNext[i].id = data.id
                           /\ StoredNext[i].ph = data.ph
                    /\ \A i \in 1..Len(Stored) :
                           \/ Stored[i].id = data.id
                           \/ i = HISTORY_LIMIT
                           \/ \E j \in 1..Len(StoredNext) :
                                  StoredNext[j] = Stored[i]]_vars

(* ======================================================================= *)
(*                       Restart, eviction, independence                   *)
(* ======================================================================= *)
\* an entry written by a record call since the initial state (the entries
\* of earlier sessions are older than any of them)
RecordedNow(entry) == IsoLess(toISOString(HISTORY_LIMIT), entry.viewedAt)

\* C21: the stored list survives a restart: closing the document leaves the
\* item as the last record or clear wrote it, and the HistoryPage opened by
\* the next document lists exactly the stored entries in their order (and
\* does not fail on an item that is absent or a list).
C21_HistorySurvivesRestart ==
    /\ [][route # "closed" /\ route' = "closed" => storage' = storage]_vars
    /\ [][route = "closed" /\ route' # "closed"
            => /\ storage' = storage
               /\ route' = "/history" => historyPage'.history = Stored
               /\ route' = "crashed" => ParseThrows(getItemOrEmpty(storage))]_vars

\* C21 witness: a module was recorded, the document was closed, and the
\* HistoryPage of the next document shows the stored list with that entry
\* first.
C21_Witness ==
    /\ route = "/history"
    /\ historyPage.startup
    /\ historyPage.history = Stored
    /\ Len(Stored) >= 2
    /\ RecordedNow(Stored[1])

\* C22: a record call that reaches the insertion (the item is absent or
\* parses) keeps the entry it inserts, at the head; an entry that leaves the
\* list is the last one of a full list, and when the recorded id was already
\* present no other id leaves the list, also when the list is full.
C22_EvictsOnlyTail ==
    [][inflight' # inflight /\ ~ParseThrows(getItemOrEmpty(storage))
       => \A data \in Snapshots :
              RecordCall(data)
              => /\ Len(StoredNext) >= 1
                 /\ StoredNext[1].id = data.id
                 /\ StoredNext[1].ph = data.ph
                 /\ \A i \in 1..Len(Stored) :
                        Stored[i].id \notin IdsOf(StoredNext)
                        => /\ i = Len(Stored)
                           /\ Len(Stored) = HISTORY_LIMIT
                           /\ data.id \notin IdsOf(Stored)]_vars

\* C22 witness: module 2 and then module 1 were recorded onto the 19 entries
\* of the earlier session whose oldest entry was module 1's: the second call
\* found a full list with its id in the last place, and the list is still
\* full with the next-oldest entry last.
C22_Witness ==
    /\ Len(Stored) = HISTORY_LIMIT
    /\ Stored[1].id = 1
    /\ Stored[2].id = 2
    /\ Stored[HISTORY_LIMIT].id = NumIds + 2
    /\ \A j \in 3..HISTORY_LIMIT : Stored[j].id = NumIds + HISTORY_LIMIT + 2 - j

\* the component state of the poller shown at route p
PollerState(p) ==
    CASE p = "/map" -> mapPage
      [] p = "/module" -> modulePage
      [] p = "/statistics" -> statsPage

Pollers == {"/map", "/module", "/statistics"}

\* the step is an event of the poller at p: it issues a fetch (start or
\* tick), one of its fetches completes, or its timer is cleared (cancel)
PollerEvent(p) ==
    \/ \E r \in Issued : r.page = p
    \/ \E r \in inflight \ inflight' : r.page = p
    \/ \E t \in timers \ timers' : t.page = p

\* C23: a tick, a fetch completion or a cancel of one poller leaves the
\* state (data, loading, error) of every other poller unchanged.
C23_PollersIndependent ==
    [][route' # "closed"
       => \A p \in Pollers :
              PollerEvent(p)
              => \A q \in Pollers \ {p} : PollerState(q)' = PollerState(q)]_vars

\* C23 witness: a module-detail poller was started and cancelled and its
\* fetch completed (its snapshot is in the stored list), the statistics
\* poller was started after it, and the StatisticsPage is as its own mount
\* left it, waiting for its first fetch.
C23_Witness ==
    /\ route = "/statistics"
    /\ nextTimer = 3
    /\ statsPage = [StatsInitial EXCEPT !.mounted = TRUE, !.interval = 2,
                                        !.first = 2]
    /\ \E r \in inflight : r.page = "/statistics" /\ r.handle = 2
    /\ Len(Stored) >= 1
    /\ RecordedNow(Stored[1])

\* the list without its entry for id, the others in their order
Without(history, id) ==
    LET index == findIndex(history, id)
    IN  IF index >= 0 THEN splice(history, index) ELSE history

\* C24: record of an id already in the list puts its new entry first and
\* keeps every other entry, with its data and viewedAt, in the order they
\* had; so record(A), record(B), record(A) at three successive times on the
\* empty list give [A, B] with A carrying the time of the third call (the
\* function is applied to every such A and B at the starting time).
C24_MoveToFront ==
    /\ [][inflight' # inflight
          => \A data \in Snapshots :
                 data.id \in IdsOf(Stored) /\ RecordCall(data)
                 => /\ StoredNext[1] = HistoryEntry(data, now)
                    /\ Len(StoredNext) = Len(Stored)
                    /\ \A j \in 2..Len(StoredNext) :
                           StoredNext[j] = Without(Stored, data.id)[j - 1]]_vars
    /\ \A a, b \in Snapshots, c \in Vals :
           a.id # b.id
           => saveToHistory(saveToHistory(saveToHistory(<<>>, a, now),
                                          b, now + 1),
                            ModuleSnapshot(a.id, c), now + 2)
              = << HistoryEntry(ModuleSnapshot(a.id, c), now + 2),
                   HistoryEntry(b, now + 1) >>

\* C24 witness: module 1, the oldest of the 19 entries of the earlier
\* session, was recorded after module 2 and a clock tick later: it is first
\* with the later time, module 2 follows with its own time, and the other
\* 18 entries follow in their order.
C24_Witness ==
    /\ Len(Stored) = HISTORY_LIMIT
    /\ Stored[1].id = 1
    /\ Stored[1].viewedAt = toISOString(ClockStart + 1)
    /\ Stored[2].id = 2
    /\ Stored[2].viewedAt = toISOString(ClockStart)
    /\ \A j \in 3..HISTORY_LIMIT :
           Stored[j] = PrefillSeen(HISTORY_LIMIT - 1)[j - 2]

(* ------------------- Writers of the history item ----------------------- *)

\* the pages that fetch but are not the module-detail page
OtherFetchers == {"/map", "/statistics", "/"}

\* C25: only the module-detail poller writes the history: every tick, fetch
\* completion and cancel of the map poller and of the statistics poller, and
\* the start and completion of the homepage's one statistics fetch, leave
\* the stored item unchanged.
C25_OnlyModulePollerWrites ==
    [][(\E p \in OtherFetchers : PollerEvent(p)) => storage' = storage]_vars

\* C25 witness: the map poller's two fetches completed, a success then a
\* failure, and the item is still the 20 entries of the earlier session.
C25_Witness ==
    /\ route = "/map"
    /\ mapPage.sensorData # <<>>
    /\ mapPage.error = MapErrorMsg
    /\ inflight = {}
    /\ storage = JSONstringify(Prefill(HISTORY_LIMIT, FALSE))

(* ------------------------- Completion order ---------------------------- *)

\* the snapshot a poller holds
Held(p) ==
    CASE p = "/map" -> mapPage.sensorData
      [] p = "/module" -> modulePage.sensor
      [] p = "/statistics" -> <<statsPage.sensorData, statsPage.stats>>

\* the requests whose continuation runs in this step and belongs to the
\* mounted instance of the poller at p
Completing(p) ==
    {r \in inflight \ inflight' : r.page = p /\ Reaches(PollerState(p), r)}

\* C26: results are applied in completion order: whenever a fetch of a
\* mounted poller completes successfully the poller holds its payload from
\* then on, whichever requests were issued before or after it; the held
\* snapshot changes in no other step, and a poller that has completed no
\* fetch holds none.
C26_LastCompletedWins ==
    /\ [][route' # "closed" /\ inflight' # inflight
          => /\ \A r \in Completing("/map"), v \in Vals :
                     fetchMapData_continue(r, "ok", v)
                     => Held("/map")' = AllModules(v)
             /\ \A r \in Completing("/module"), v \in Vals :
                     fetchModuleData_continue(r, "ok", v)
                     => Held("/module")' = <<ModuleSnapshot(r.modId, v)>>
             /\ \A r \in Completing("/statistics"), v, w \in Vals :
                     fetchData_continue(r, "ok", "ok", v, w)
                     => Held("/statistics")'
                            = <<AllModules(v), <<AggregateStats(w)>> >>]_vars
    /\ [][\A p \in Pollers :
              /\ PollerState(p).mounted /\ PollerState(p)'.mounted
                   /\ Held(p)' # Held(p) => Completing(p) # {}
              /\ ~PollerState(p).mounted /\ PollerState(p)'.mounted
                   => /\ Held(p)' \in {<<>>, << <<>>, <<>> >>}
                      /\ PollerState(p)'.first = nextTimer]_vars

\* C26 witness: of the two fetches of the module poller the one issued
\* second has completed and its payload is held, while the one issued first
\* is still in flight and will replace it.
C26_Witness ==
    /\ route = "/module"
    /\ modulePage.sensor = <<ModuleSnapshot(modulePage.id, 2)>>
    /\ modulePage.first = modulePage.interval
    /\ nextReq = 3
    /\ \E r \in inflight : r.seq = 1 /\ r.page = "/module"
                           /\ r.handle = modulePage.interval

(* --------------------------- Timer ownership --------------------------- *)

\* the live interval timers of the view at p
TimersOf(p) == {t \in timers : t.page = p}

\* C27: each view has at most one live interval timer, and it is the one its
\* current effect run registered (so the timer of an earlier module id is
\* cleared when the run for the new id starts); a view that is not shown
\* has no live timer.
C27_TimerOwnership ==
    /\ \A p \in Pollers :
           /\ Cardinality(TimersOf(p)) <= 1
           /\ \A t \in TimersOf(p) :
                  /\ route = p
                  /\ PollerState(p).mounted
                  /\ PollerState(p).interval = t.id
           /\ ~PollerState(p).mounted => TimersOf(p) = {}
    /\ \A t \in TimersOf("/module") : t.modId = modulePage.id
    /\ \A t \in timers : t.page \in Pollers

\* C27 witness: the module view was mounted for one id (timer 1) and the id
\* changed: its only live timer is timer 2, for the new id.
C27_Witness ==
    /\ route = "/module"
    /\ modulePage.first = 1
    /\ modulePage.interval = 2
    /\ timers = {Timer(2, "/module", modulePage.id)}

(* ----------------------------- Loading flag ---------------------------- *)

\* C28: a poller's loading flag is true when the view mounts and stays true
\* until the first of its fetches completes; that completion, resolved or
\* rejected, makes it false, and no later step of the mounted view (tick,
\* failure, module-id change) makes it true again.
C28_LoadingUntilFirstCompletion ==
    [][\A p \in Pollers :
           /\ ~PollerState(p).mounted /\ PollerState(p)'.mounted
                => PollerState(p)'.loading
           /\ PollerState(p).mounted /\ PollerState(p)'.mounted
                => /\ PollerState(p).loading /\ ~PollerState(p)'.loading
                        => Completing(p) # {}
                   /\ Completing(p) # {} => ~PollerState(p)'.loading
                   /\ ~PollerState(p).loading => ~PollerState(p)'.loading]_vars

\* C28 witness: the fetch issued at mount of the module view has failed and
\* the module id has changed; the fetch for the new id is still in flight
\* and loading is false.
C28_Witness ==
    /\ route = "/module"
    /\ modulePage.first = 1
    /\ modulePage.interval = 2
    /\ modulePage.error = ModuleErrorMsg
    /\ modulePage.sensor = <<>>
    /\ ~modulePage.loading
    /\ \E r \in inflight : r.seq = 2 /\ r.handle = 2 /\ r.page = "/module"

(* ------------------------ Statistics pair update ----------------------- *)

\* C29: the module list and the aggregate statistics of the StatisticsPage
\* are replaced only together, by a completion in which both gets resolved;
\* when either get of a completion fails neither value changes and the
\* error is set.
C29_StatsPairUpdate ==
    /\ [][statsPage.mounted /\ statsPage'.mounted
          => /\ (statsPage'.sensorData # statsPage.sensorData
                   \/ statsPage'.stats # statsPage.stats)
                => \E r \in Completing("/statistics"), v, w \in Vals :
                       /\ fetchData_continue(r, "ok", "ok", v, w)
                       /\ statsPage'.sensorData = AllModules(v)
                       /\ statsPage'.stats = <<AggregateStats(w)>>
             /\ \A r \in Completing("/statistics"),
                   modulesOutcome, statisticsOutcome \in OutcomeKinds :
                    \A v \in Bodies(modulesOutcome), w \in Bodies(statisticsOutcome) :
                        /\ getThrows(modulesOutcome) \/ getThrows(statisticsOutcome)
                        /\ fetchData_continue(r, modulesOutcome, statisticsOutcome, v, w)
                        => /\ statsPage'.sensorData = statsPage.sensorData
                           /\ statsPage'.stats = statsPage.stats
                           /\ statsPage'.error = StatsErrorMsg]_vars
    /\ [](statsPage.sensorData = <<>> <=> statsPage.stats = <<>>)

\* C29 witness: the first completion brought both values, the second had a
\* failed get: both values of the first are still held and the error is set.
C29_Witness ==
    /\ route = "/statistics"
    /\ statsPage.sensorData = AllModules(1)
    /\ statsPage.stats = <<AggregateStats(2)>>
    /\ statsPage.error = StatsErrorMsg
    /\ nextReq = 3
    /\ inflight = {}

(* ------------------------- Re-record keeps size ------------------------ *)

\* the entries of a list have pairwise distinct ids
DistinctIds(history) ==
    \A i, j \in 1..Len(history) : history[i].id = history[j].id => i = j

\* C30: on a list of distinct ids with at most 20 entries, record of a
\* snapshot whose id is already present leaves the length of the list and
\* the set of ids in it unchanged.
C30_ReRecordNeverEvicts ==
    [][inflight' # inflight
       => \A data \in Snapshots :
              /\ RecordCall(data)
              /\ data.id \in IdsOf(Stored)
              /\ DistinctIds(Stored)
              /\ Len(Stored) <= HISTORY_LIMIT
              => /\ Len(StoredNext) = Len(Stored)
                 /\ IdsOf(StoredNext) = IdsOf(Stored)]_vars

\* C30 witness: module 2 was recorded on the 19 entries of the earlier
\* session, making 20, and then module 1, the oldest of them and now the
\* last of the 20, was recorded again: the list has the same 20 distinct
\* ids.
C30_Witness ==
    /\ Len(Stored) = HISTORY_LIMIT
    /\ DistinctIds(Stored)
    /\ Stored[1].id = 1
    /\ RecordedNow(Stored[1])
    /\ Stored[2].id = 2
    /\ IdsOf(Stored) = IdsOf(PrefillSeen(HISTORY_LIMIT - 1)) \cup {2}
====
